---- MODULE Spec2Model ----
(***************************************************************************)
(* Model of the retrying / failing-over Tapes proxy fetch wrapper          *)
(* (createTapesFetch and the tapesFetch closure it returns).               *)
(*                                                                         *)
(* One invocation of tapesFetch is modelled as a state machine whose       *)
(* actions are the synchronous stretches of the async function between two *)
(* awaits: the call itself, the settlement of an awaited fetch to the      *)
(* proxy, the expiry of a backoff sleep, and the settlement of the direct  *)
(* (failover) fetch.  The network is the environment: it chooses the       *)
(* status of every response and the error of every rejected fetch.         *)
(***************************************************************************)
EXTENDS Integers, Sequences, FiniteSets, TLC

----------------------------------------------------------------------------
(* Bounds of the model *)

\* largest retry.maxAttempts a configuration is drawn with
MaxAttemptsBound == 3

----------------------------------------------------------------------------
(* Optional values: a set with no element (undefined) or one element *)

Undefined == {}

Some(v) == {v}

\* a ?? b
Nullish(opt, default) == IF opt = Undefined THEN default ELSE CHOOSE v \in opt : TRUE

----------------------------------------------------------------------------
(* Strings *)

\* String.prototype.includes
Includes(s, e) ==
    \E i \in 1..(Len(s) - Len(e) + 1) : SubSeq(s, i, i + Len(e) - 1) = e

Min(a, b) == IF a <= b THEN a ELSE b

----------------------------------------------------------------------------
(* Retry classification *)

RETRYABLE_NETWORK_ERRORS ==
    {"ECONNREFUSED", "ECONNRESET", "ETIMEDOUT", "fetch failed", "UND_ERR_CONNECT_TIMEOUT"}

\* variant: 500 counted among the transient statuses
RETRYABLE_STATUS_CODES_with500 == {500, 502, 503, 504}

\* variant: 503 left out of the transient statuses
RETRYABLE_STATUS_CODES_no503 == {502, 504}

RETRYABLE_STATUS_CODES == {502, 503, 504}

\* the null of lastError / lastResponse
Null == [kind |-> "null", status |-> 0, message |-> "", code |-> "", id |-> 0]

\* isRetryable(error, response); either argument may be Null
isRetryable(error, response) ==
    IF error # Null
    THEN \E e \in RETRYABLE_NETWORK_ERRORS :
            Includes(error.message, e) \/ Includes(error.code, e)
    ELSE IF response # Null
    THEN response.status \in RETRYABLE_STATUS_CODES
    ELSE FALSE

----------------------------------------------------------------------------
(* Headers (the WHATWG Headers class, as far as the wrapper uses it) *)

\* header names are case-insensitive: Headers stores them lower-cased
LowerCase(name) ==
    CASE name = "Authorization" -> "authorization"
      [] name = "X-Tapes-Session" -> "x-tapes-session"
      [] name = "X-Tapes-Original-Host" -> "x-tapes-original-host"
      [] OTHER -> name

\* Headers.prototype.append: a repeated name combines the values
HeadersAppend(h, name, value) ==
    LET n == LowerCase(name) IN
    [k \in DOMAIN h \cup {n} |->
        IF k # n THEN h[k]
        ELSE IF n \in DOMAIN h THEN h[n] \o ", " \o value ELSE value]

\* Headers.prototype.set: a repeated name is overwritten
HeadersSet(h, name, value) ==
    LET n == LowerCase(name) IN
    [k \in DOMAIN h \cup {n} |-> IF k = n THEN value ELSE h[k]]

EmptyHeaders == [k \in {} |-> ""]

RECURSIVE AppendAll(_, _)
AppendAll(h, pairs) ==
    IF pairs = <<>> THEN h
    ELSE AppendAll(HeadersAppend(h, Head(pairs)[1], Head(pairs)[2]), Tail(pairs))

RECURSIVE SetAll(_, _)
SetAll(h, pairs) ==
    IF pairs = <<>> THEN h
    ELSE SetAll(HeadersSet(h, Head(pairs)[1], Head(pairs)[2]), Tail(pairs))

\* new Headers(init?.headers): init and init.headers are optional
NewHeaders(initOpt) ==
    IF initOpt = Undefined THEN EmptyHeaders
    ELSE AppendAll(EmptyHeaders, Nullish((CHOOSE i \in initOpt : TRUE).headers, <<>>))

\* variant: the caller's headers are laid over the configured ones
MergedHeaders_callerWins(initOpt, extra, host) ==
    LET pairs == IF initOpt = Undefined THEN <<>>
                 ELSE Nullish((CHOOSE i \in initOpt : TRUE).headers, <<>>)
    IN HeadersSet(SetAll(SetAll(EmptyHeaders, extra), pairs),
                  "X-Tapes-Original-Host", host)

\* variant: the original host is set before the configured headers
MergedHeaders_hostFirst(initOpt, extra, host) ==
    SetAll(HeadersSet(NewHeaders(initOpt), "X-Tapes-Original-Host", host), extra)

\* the merged headers of a proxied request
MergedHeaders(initOpt, extra, host) ==
    HeadersSet(SetAll(NewHeaders(initOpt), extra), "X-Tapes-Original-Host", host)

----------------------------------------------------------------------------
(* URLs *)

\* proxyUrl.replace(/\/$/, '')
NormalizeProxyUrl(proxyUrl) ==
    IF Len(proxyUrl) > 0 /\ SubSeq(proxyUrl, Len(proxyUrl), Len(proxyUrl)) = "/"
    THEN SubSeq(proxyUrl, 1, Len(proxyUrl) - 1)
    ELSE proxyUrl

\* URL.prototype.href of a parsed URL value
Href(url) == url.protocol \o "//" \o url.host \o url.pathname \o url.search

\* the first position >= from at which s holds one of the characters cs,
\* Len(s) + 1 when there is none
IndexOfAny(s, cs, from) ==
    LET hits == {i \in from..Len(s) : SubSeq(s, i, i) \in cs}
    IN IF hits = {} THEN Len(s) + 1 ELSE CHOOSE i \in hits : \A j \in hits : i <= j

\* the first position >= from at which s holds none of the characters cs
IndexOfNone(s, cs, from) ==
    LET hits == {i \in from..Len(s) : SubSeq(s, i, i) \notin cs}
    IN IF hits = {} THEN Len(s) + 1 ELSE CHOOSE i \in hits : \A j \in hits : i <= j

\* the URL parser on an absolute http(s) URL string: the scheme up to the
\* colon, any run of slashes, the authority up to the next slash or question
\* mark, the path (a lone slash when empty), the query
ParseUrl(s) ==
    LET colon == IndexOfAny(s, {":"}, 1)
        auth == IndexOfNone(s, {"/"}, colon + 1)
        path == IndexOfAny(s, {"/", "?"}, auth)
        query == IndexOfAny(s, {"?"}, path)
    IN [protocol |-> SubSeq(s, 1, colon),
        host |-> SubSeq(s, auth, path - 1),
        pathname |-> IF path = query THEN "/" ELSE SubSeq(s, path, query - 1),
        search |-> IF query >= Len(s) THEN "" ELSE SubSeq(s, query, Len(s))]

\* new URL(ref, base) for a ref that starts with a slash: a ref that starts
\* with two slashes is scheme-relative and names its own authority; any
\* other keeps the authority of the base and replaces its path and query
ResolveUrl(ref, base) ==
    IF Len(ref) >= 2 /\ SubSeq(ref, 1, 2) = "//"
    THEN ParseUrl(ParseUrl(base).protocol \o ref)
    ELSE ParseUrl(ParseUrl(base).protocol \o "//" \o ParseUrl(base).host \o ref)

\* new URL(originalUrl.pathname + originalUrl.search, normalizedProxyUrl).href
ProxiedHref(url, base) == Href(ResolveUrl(url.pathname \o url.search, base))

\* The three shapes of input: a string (a record with the one field string),
\* a URL value (the record of its parts), anything else, which is taken to
\* be a Request and asked for its url.
\* typeof input === 'string' ? new URL(input)
\*   : input instanceof URL ? input : new URL(input.url)
OriginalUrl(in) ==
    IF "string" \in DOMAIN in THEN ParseUrl(in.string)
    ELSE IF "pathname" \in DOMAIN in THEN in
    ELSE ParseUrl(in.url)

----------------------------------------------------------------------------
(* The environment: configurations, arguments and network outcomes *)

ProxyUrls == {"http://localhost:8080", "http://localhost:8080/"}

\* config.headers, as Object.entries lists it
ExtraHeaderChoices ==
    { <<>>, << <<"X-Tapes-Session", "configured-session">> >> }

\* config.retry: absent, or an object whose fields may each be absent
RetryChoices ==
    {Undefined} \cup
    { Some([maxAttempts |-> ma, initialDelayMs |-> idl, maxDelayMs |-> mdl]) :
        ma \in {Undefined} \cup {Some(n) : n \in 0..MaxAttemptsBound},
        idl \in {Undefined, Some(3000)},
        mdl \in {Undefined, Some(1000)} }

\* the request target, given as a URL value
Inputs ==
    { [protocol |-> "https:", host |-> "api.openai.com",
       pathname |-> "/v1/chat/completions", search |-> "?stream=1"] }

\* the init argument: absent, or options whose headers may be absent
Inits ==
    { Undefined,
      Some([headers |-> Some(<< <<"Authorization", "Bearer key">> >>)]),
      Some([headers |-> Some(<< <<"x-tapes-session", "caller-session">>,
                                <<"X-Tapes-Original-Host", "spoofed.example">> >>)]) }

\* statuses a server may answer with
Statuses == {200, 404, 500, 502, 503, 504}

\* errors a fetch may reject with: message and cause.code
NetworkErrors ==
    { [message |-> "fetch failed", code |-> "ECONNREFUSED"],
      [message |-> "socket hang up", code |-> "ECONNRESET"],
      [message |-> "connect ETIMEDOUT 10.0.0.1:443", code |-> ""],
      [message |-> "This operation was aborted", code |-> ""] }

\* the Response the id-th request of the invocation resolves with
Response(status, id) ==
    [kind |-> "response", status |-> status, message |-> "", code |-> "", id |-> id]

\* the Error the id-th request of the invocation rejects with
Error(e, id) ==
    [kind |-> "error", status |-> 0, message |-> e.message, code |-> e.code, id |-> id]

----------------------------------------------------------------------------
(* State *)

VARIABLES
    normalizedProxyUrl, extraHeaders, debug, retryConfig, failover,
    input, init,
    originalUrl, proxiedUrl, requestInit, attempt, lastError, lastResponse,
    pc, requests, settled, sleeps, console, outcome,
    parked, config, signal,
    sessions, heap, handlers, replies, generations

closure == <<normalizedProxyUrl, extraHeaders, debug, retryConfig, failover>>
arguments == <<input, init>>
locals == <<originalUrl, proxiedUrl, requestInit>>

\* what lies outside the running invocation: parked is another invocation
\* that is suspended at an await or has not started or has completed (absent
\* when there is only one invocation), config is the config object that was
\* passed to createTapesFetch, as long as the caller still holds it
\* signal is the state of init.signal, the AbortSignal the caller may pass in
\* the options.  server is the state of the chat server: the sessions Map,
\* the arrays it refers to, the POST handlers suspended at generateText, the
\* HTTP replies sent and the calls made to the model.
server == <<sessions, heap, handlers, replies, generations>>

elsewhere == <<parked, config, signal, server>>

vars == <<closure, arguments, locals, attempt, lastError, lastResponse,
          pc, requests, settled, sleeps, console, outcome, elsewhere>>

NoUrl == [protocol |-> "", host |-> "", pathname |-> "", search |-> ""]

Pending == [kind |-> "pending", value |-> Null]

\* createTapesFetch(config) for a config drawn from the given choices, and
\* the arguments of the invocation to come: the state before the invocation
InitWith(proxyUrls, extraChoices, debugs, retryChoices, failovers, inputs, inits) ==
    /\ \E proxyUrl \in proxyUrls : normalizedProxyUrl = NormalizeProxyUrl(proxyUrl)
    /\ extraHeaders \in extraChoices
    /\ debug \in debugs
    /\ \E retry \in retryChoices :
         LET r == Nullish(retry, [maxAttempts |-> Undefined,
                                  initialDelayMs |-> Undefined,
                                  maxDelayMs |-> Undefined])
         IN retryConfig = [maxAttempts |-> Nullish(r.maxAttempts, 3),
                           initialDelayMs |-> Nullish(r.initialDelayMs, 500),
                           maxDelayMs |-> Nullish(r.maxDelayMs, 5000)]
    /\ failover \in failovers
    /\ input \in inputs
    /\ init \in inits
    /\ originalUrl = NoUrl
    /\ proxiedUrl = ""
    /\ requestInit = [headers |-> EmptyHeaders]
    /\ attempt = 0
    /\ lastError = Null
    /\ lastResponse = Null
    /\ pc = "idle"
    /\ requests = <<>>
    /\ settled = <<>>
    /\ sleeps = <<>>
    /\ console = <<>>
    /\ outcome = Pending

\* init carries no signal
NoSignal == [state |-> "absent", requests |-> 0, sleeps |-> 0]

\* a Map, or an object used as one, without entries
EmptyMap == [k \in {} |-> 0]

\* the chat server as it starts: new Map(), no array allocated, no request
\* received, nothing sent to the model
ServerIdle ==
    /\ sessions = EmptyMap
    /\ heap = <<>>
    /\ handlers = EmptyMap
    /\ replies = <<>>
    /\ generations = <<>>

\* the wrapper on its own: no signal, no server
Apart == signal = NoSignal /\ ServerIdle

\* a single invocation, of a wrapper whose config object nobody holds any more
Alone == parked = Undefined /\ config = Undefined /\ Apart

Init ==
    /\ InitWith(ProxyUrls, ExtraHeaderChoices, BOOLEAN, RetryChoices, BOOLEAN, Inputs, Inits)
    /\ Alone

----------------------------------------------------------------------------
(* Steps of tapesFetch *)

\* if (debug) console.log(...)
Log(lines, line) == IF debug THEN Append(lines, line) ELSE lines

\* variant: the loop condition off by one upwards
LoopContinues_inclusive(a, cfg) == a <= cfg.maxAttempts

\* variant: the loop condition off by one downwards
LoopContinues_short(a, cfg) == a < cfg.maxAttempts - 1

\* variant: a loop without a bound, for (let attempt = 0; ; attempt++)
LoopContinues_forever(a, cfg) == TRUE

\* the loop condition: attempt < retryConfig.maxAttempts
LoopContinues(a, cfg) == a < cfg.maxAttempts

\* variant: the last attempt is followed by a sleep as well
NotLastAttempt_always(a, cfg) == a < cfg.maxAttempts

\* variant: the attempt before the last is already treated as the last
NotLastAttempt_early(a, cfg) == a < cfg.maxAttempts - 2

\* the second conjunct of both retry tests: attempt < retryConfig.maxAttempts - 1
NotLastAttempt(a, cfg) == a < cfg.maxAttempts - 1

\* variant: the delay without its cap
Delay_uncapped(a, cfg) == cfg.initialDelayMs * 2^a

\* Math.min(retryConfig.initialDelayMs * 2 ** attempt, retryConfig.maxDelayMs)
Delay(a, cfg) == Min(cfg.initialDelayMs * 2^a, cfg.maxDelayMs)

\* variant: the direct request reuses the headers merged for the proxy
DirectHeaders_merged(initOpt, merged) == merged

\* the headers of the direct request: new Headers(init?.headers)
DirectHeaders(initOpt, merged) == NewHeaders(initOpt)

\* init?.name: absent when init is absent or has no such property
InitField(initOpt, name) ==
    IF initOpt = Undefined THEN Undefined
    ELSE LET i == CHOOSE o \in initOpt : TRUE
         IN IF name \in DOMAIN i THEN i[name] ELSE Undefined

\* the request fetch(url, { ...init, headers }) sends: apart from the
\* headers, the options are those of init; fetch called with a URL string
\* uses GET when the options name no method
Outbound(to, url, headers) ==
    [to |-> to, url |-> url, headers |-> headers,
     method |-> Nullish(InitField(init, "method"), "GET"),
     body |-> InitField(init, "body")]

\* variant: the sleep is started but not awaited, the next attempt goes out
\* while the timer is still running
Sleep_eager(a) ==
    /\ sleeps' = Append(sleeps, [attempt |-> a, ms |-> Delay(a, retryConfig),
                                 at |-> Len(requests)])
    /\ attempt' = a + 1
    /\ requests' = Append(requests,
                          Outbound("proxy", proxiedUrl, requestInit.headers))
    /\ pc' = "fetch"
    /\ UNCHANGED outcome

\* variant: the sleep sits inside the if (debug) block, without debug the
\* next attempt goes out at once
Sleep_onlyWithDebug(a) ==
    IF debug
    THEN /\ sleeps' = Append(sleeps, [attempt |-> a, ms |-> Delay(a, retryConfig),
                                      at |-> Len(requests)])
         /\ pc' = "sleep"
         /\ UNCHANGED <<attempt, requests, outcome>>
    ELSE /\ attempt' = a + 1
         /\ requests' = Append(requests,
                               Outbound("proxy", proxiedUrl, requestInit.headers))
         /\ pc' = "fetch"
         /\ UNCHANGED <<sleeps, outcome>>

\* await sleep(delay) after the attempt a
Sleep(a) ==
    /\ sleeps' = Append(sleeps, [attempt |-> a, ms |-> Delay(a, retryConfig),
                                 at |-> Len(requests)])
    /\ pc' = "sleep"
    /\ UNCHANGED <<attempt, requests, outcome>>

\* The head of the for loop reached with attempt = a, and what follows the
\* loop when its condition fails: the failover fetch, else the final
\* throw / return.  lines is the console as the step has left it so far.
LoopHead(a, lines) ==
    IF LoopContinues(a, retryConfig)
    THEN /\ attempt' = a
         /\ requests' = Append(requests,
                               Outbound("proxy", proxiedUrl', requestInit'.headers))
         /\ pc' = "fetch"
         /\ console' = lines
         /\ UNCHANGED <<sleeps, outcome>>
    ELSE IF failover
    THEN /\ attempt' = a
         /\ requests' = Append(requests,
                Outbound("direct", Href(originalUrl'),
                         DirectHeaders(init, requestInit'.headers)))
         /\ pc' = "failover"
         /\ console' = Log(lines, "failing over to direct")
         /\ UNCHANGED <<sleeps, outcome>>
    ELSE /\ attempt' = a
         /\ outcome' = IF lastError' # Null
                       THEN [kind |-> "throw", value |-> lastError']
                       ELSE [kind |-> "return", value |-> lastResponse']
         /\ pc' = "done"
         /\ console' = lines
         /\ UNCHANGED <<requests, sleeps>>

\* variant: the original host is written into the caller's own headers,
\* init.headers['X-Tapes-Original-Host'] = originalUrl.host, before they are
\* copied
TapesFetch_writesCallerHeaders ==
    /\ pc = "idle"
    /\ originalUrl' = OriginalUrl(input)
    /\ proxiedUrl' = ProxiedHref(originalUrl', normalizedProxyUrl)
    /\ init' = IF init = Undefined THEN init
               ELSE LET i == CHOOSE o \in init : TRUE
                    IN Some([i EXCEPT !.headers =
                                Some(Append(Nullish(i.headers, <<>>),
                                            <<"X-Tapes-Original-Host",
                                              originalUrl'.host>>))])
    /\ requestInit' = [headers |-> MergedHeaders(init', extraHeaders, originalUrl'.host)]
    /\ lastError' = Null
    /\ lastResponse' = Null
    /\ LoopHead(0, Log(console, "proxying"))
    /\ UNCHANGED <<closure, elsewhere, input, settled>>

\* tapesFetch(input, init) up to its first await
TapesFetch ==
    /\ pc = "idle"
    /\ originalUrl' = OriginalUrl(input)
    /\ proxiedUrl' = ProxiedHref(originalUrl', normalizedProxyUrl)
    /\ requestInit' = [headers |-> MergedHeaders(init, extraHeaders, originalUrl'.host)]
    /\ lastError' = Null
    /\ lastResponse' = Null
    /\ LoopHead(0, Log(console, "proxying"))
    /\ UNCHANGED <<closure, elsewhere, arguments, settled>>

\* the proxied fetch resolves with a response
ProxyResponds(status) ==
    /\ pc = "fetch"
    /\ LET response == Response(status, Len(requests)) IN
       /\ settled' = Append(settled, response)
       /\ IF isRetryable(Null, response) /\ NotLastAttempt(attempt, retryConfig)
          THEN /\ console' = Log(console, "status, retrying")
               /\ lastResponse' = response
               /\ Sleep(attempt)
          ELSE /\ console' = Log(console, "response")
               /\ outcome' = [kind |-> "return", value |-> response]
               /\ pc' = "done"
               /\ UNCHANGED <<attempt, lastResponse, requests, sleeps>>
    /\ UNCHANGED <<closure, elsewhere, arguments, locals, lastError>>

\* the proxied fetch rejects
ProxyRejects(e) ==
    /\ pc = "fetch"
    /\ LET error == Error(e, Len(requests)) IN
       /\ settled' = Append(settled, error)
       /\ lastError' = error
       /\ UNCHANGED <<closure, elsewhere, arguments, locals, lastResponse>>
       /\ IF isRetryable(error, Null) /\ NotLastAttempt(attempt, retryConfig)
          THEN /\ console' = Log(console, "failed, retrying")
               /\ Sleep(attempt)
          ELSE LoopHead(attempt + 1, console)

\* the backoff sleep elapses: continue
SleepResolves ==
    /\ pc = "sleep"
    /\ UNCHANGED <<closure, elsewhere, arguments, locals, lastError, lastResponse, settled>>
    /\ LoopHead(attempt + 1, console)

\* the direct (failover) fetch resolves with a response
DirectResponds(status) ==
    /\ pc = "failover"
    /\ LET response == Response(status, Len(requests)) IN
       /\ settled' = Append(settled, response)
       /\ console' = Log(console, "failover response")
       /\ outcome' = [kind |-> "return", value |-> response]
    /\ pc' = "done"
    /\ UNCHANGED <<closure, elsewhere, arguments, locals, attempt, lastError, lastResponse,
                   requests, sleeps>>

\* variant: a failed failover rethrows the error of the last proxied attempt
DirectRejects_lastError(e) ==
    /\ pc = "failover"
    /\ LET failoverError == Error(e, Len(requests)) IN
       /\ settled' = Append(settled, failoverError)
       /\ console' = Log(console, "failover also failed")
       /\ outcome' = [kind |-> "throw",
                      value |-> IF lastError # Null THEN lastError ELSE failoverError]
    /\ pc' = "done"
    /\ UNCHANGED <<closure, elsewhere, arguments, locals, attempt, lastError, lastResponse,
                   requests, sleeps>>

\* the direct (failover) fetch rejects
DirectRejects(e) ==
    /\ pc = "failover"
    /\ LET failoverError == Error(e, Len(requests)) IN
       /\ settled' = Append(settled, failoverError)
       /\ console' = Log(console, "failover also failed")
       /\ outcome' = [kind |-> "throw", value |-> failoverError]
    /\ pc' = "done"
    /\ UNCHANGED <<closure, elsewhere, arguments, locals, attempt, lastError, lastResponse,
                   requests, sleeps>>

Next ==
    \/ TapesFetch
    \/ \E status \in Statuses : ProxyResponds(status)
    \/ \E e \in NetworkErrors : ProxyRejects(e)
    \/ SleepResolves
    \/ \E status \in Statuses : DirectResponds(status)
    \/ \E e \in NetworkErrors : DirectRejects(e)

Spec == Init /\ [][Next]_vars

----------------------------------------------------------------------------
(* Properties *)

\* indices of the requests sent to the proxy / to the original target
Proxied == {k \in DOMAIN requests : requests[k].to = "proxy"}

Direct == {k \in DOMAIN requests : requests[k].to = "direct"}

IsRetryableStatus(o) == o.kind = "response" /\ o.status \in {502, 503, 504}

IsNetworkError(o) == o.kind = "error"

IsRetryableError(o) ==
    /\ o.kind = "error"
    /\ \E e \in RETRYABLE_NETWORK_ERRORS : Includes(o.message, e) \/ Includes(o.code, e)

\* C1: the number of requests issued to the proxied URL never exceeds
\* retry.maxAttempts, whatever responses and errors the proxy produces.
C1_AttemptsBounded == Cardinality(Proxied) <= retryConfig.maxAttempts

\* three proxied attempts were made, the whole allowance
C1_Witness ==
    /\ pc = "done"
    /\ retryConfig.maxAttempts = 3
    /\ Cardinality(Proxied) = 3

\* C2 (as claimed): once failover is enabled and each of the maxAttempts
\* proxied attempts has ended in a retryable outcome, exactly one direct
\* request is issued and its outcome is the outcome of the invocation.
C2_FailoverAfterRetryableExhaustion ==
    ( /\ failover
      /\ retryConfig.maxAttempts >= 1
      /\ Cardinality(Proxied) = retryConfig.maxAttempts
      /\ \A k \in Proxied :
            k \in DOMAIN settled
            /\ (IsRetryableStatus(settled[k]) \/ IsRetryableError(settled[k])) )
    => ( /\ Cardinality(Direct) = 1
         /\ pc = "done" =>
              /\ Len(settled) = Len(requests)
              /\ outcome.value = settled[Len(settled)]
              /\ requests[Len(requests)].to = "direct" )

\* C3: the direct request is issued at most once, only with failover enabled,
\* only after maxAttempts proxied requests, and no request follows it.
C3_FailoverOnceAndLast ==
    /\ Cardinality(Direct) <= 1
    /\ \A d \in Direct :
         /\ failover
         /\ d = Len(requests)
         /\ Cardinality({k \in Proxied : k < d}) >= retryConfig.maxAttempts
         /\ \A k \in Proxied : k \in DOMAIN settled

\* a failover that followed two proxied attempts has completed
C3_Witness ==
    /\ pc = "done"
    /\ retryConfig.maxAttempts = 2
    /\ Direct = {3}
    /\ Len(settled) = 3

\* C4: a proxied response whose status is none of 502, 503, 504 is returned
\* at once: no later request, no later sleep, no failover; on the first
\* attempt exactly one request is issued in total.
C4_NonRetryableStatusReturned ==
    \A k \in Proxied :
        ( /\ k \in DOMAIN settled
          /\ settled[k].kind = "response"
          /\ settled[k].status \notin {502, 503, 504} )
        => ( /\ pc = "done"
             /\ outcome = [kind |-> "return", value |-> settled[k]]
             /\ Len(requests) = k
             /\ Direct = {}
             /\ \A i \in DOMAIN sleeps : sleeps[i].at < k
             /\ (k = 1 => Len(requests) = 1 /\ sleeps = <<>>) )

\* a 500 answered to the second attempt, failover enabled
C4_Witness ==
    /\ failover
    /\ retryConfig.maxAttempts = 3
    /\ Len(settled) = 2
    /\ settled[2].kind = "response"
    /\ settled[2].status = 500
    /\ pc = "done"

\* C5 (as claimed): after a proxied attempt fails with a network error that
\* is not classified retryable, no further proxied attempt is issued, and
\* with failover disabled that error is what the invocation throws.
C5_NonRetryableErrorStopsLoop ==
    \A k \in Proxied :
        ( /\ k \in DOMAIN settled
          /\ IsNetworkError(settled[k])
          /\ ~IsRetryableError(settled[k]) )
        => ( /\ \A j \in Proxied : j <= k
             /\ ~failover =>
                  /\ pc = "done"
                  /\ outcome = [kind |-> "throw", value |-> settled[k]] )

\* every attempt settled so far was answered 503
AllAnswered503 ==
    /\ settled # <<>>
    /\ \A k \in DOMAIN settled : settled[k].kind = "response" /\ settled[k].status = 503

\* C6: with failover disabled and maxAttempts >= 1, a proxy that answers 503
\* to every attempt is asked maxAttempts times, and the invocation then
\* resolves with the last 503 response; it does not throw.
C6_Last503Returned ==
    ( ~failover /\ retryConfig.maxAttempts >= 1 /\ AllAnswered503 )
    => ( /\ (pc = "done") <=> (Len(settled) = retryConfig.maxAttempts)
         /\ pc = "done" =>
              outcome = [kind |-> "return",
                         value |-> Response(503, retryConfig.maxAttempts)] )

\* three 503 answers in a row, failover disabled
C6_Witness ==
    /\ ~failover
    /\ retryConfig.maxAttempts = 3
    /\ AllAnswered503
    /\ Len(settled) = 3
    /\ pc = "done"
    /\ outcome.kind = "return"

\* the last network error among the settled attempts
LastNetworkError ==
    LET ks == {k \in DOMAIN settled : IsNetworkError(settled[k])}
    IN settled[CHOOSE k \in ks : \A j \in ks : j <= k]

\* C7 (as claimed): with failover disabled, once the proxied attempts are
\* exhausted on network errors and 502/503/504 responses, the invocation
\* throws the last network error if any attempt ended in one, and otherwise
\* returns the last response.
C7_ExhaustedOutcome ==
    ( /\ ~failover
      /\ pc = "done"
      /\ retryConfig.maxAttempts >= 1
      /\ Len(settled) = retryConfig.maxAttempts
      /\ \A k \in DOMAIN settled :
            IsNetworkError(settled[k]) \/ IsRetryableStatus(settled[k]) )
    => IF \E k \in DOMAIN settled : IsNetworkError(settled[k])
       THEN outcome = [kind |-> "throw", value |-> LastNetworkError]
       ELSE outcome = [kind |-> "return", value |-> settled[Len(settled)]]

\* the header names the caller supplied in init.headers, lower-cased
CallerHeaderNames ==
    IF init = Undefined THEN {}
    ELSE LET pairs == Nullish((CHOOSE i \in init : TRUE).headers, <<>>)
         IN {LowerCase(pairs[i][1]) : i \in DOMAIN pairs}

\* the value the caller gave the header called name (names occur once)
CallerHeaderValue(name) ==
    LET pairs == Nullish((CHOOSE i \in init : TRUE).headers, <<>>)
    IN pairs[CHOOSE i \in DOMAIN pairs : LowerCase(pairs[i][1]) = name][2]

ConnectionRefused(o) == o.kind = "error" /\ o.code = "ECONNREFUSED"

\* C8: after connection-refused errors on all maxAttempts proxied attempts,
\* with failover enabled, the direct request goes to the original URL with
\* the caller's own headers only (no configured extra header, no
\* X-Tapes-Original-Host unless the caller supplied it), and a response to
\* it is what the invocation returns.
C8_FailoverRequestIsClean ==
    ( /\ failover
      /\ pc # "idle"
      /\ Len(settled) >= retryConfig.maxAttempts
      /\ \A k \in 1..retryConfig.maxAttempts : ConnectionRefused(settled[k]) )
    => LET d == retryConfig.maxAttempts + 1 IN
       /\ Len(requests) = d
       /\ requests[d].to = "direct"
       /\ requests[d].url =
            input.protocol \o "//" \o input.host \o input.pathname \o input.search
       /\ DOMAIN requests[d].headers = CallerHeaderNames
       /\ \A n \in CallerHeaderNames : requests[d].headers[n] = CallerHeaderValue(n)
       /\ (Len(settled) = d /\ settled[d].kind = "response")
            => pc = "done" /\ outcome = [kind |-> "return", value |-> settled[d]]

\* two refused attempts, then a direct request that succeeds; the wrapper
\* is configured with an extra header and the caller sent only Authorization
C8_Witness ==
    /\ failover
    /\ retryConfig.maxAttempts = 2
    /\ extraHeaders # <<>>
    /\ CallerHeaderNames = {"authorization"}
    /\ Len(settled) = 3
    /\ ConnectionRefused(settled[1])
    /\ ConnectionRefused(settled[2])
    /\ settled[3].kind = "response"
    /\ settled[3].status = 200
    /\ pc = "done"

\* C9: if the direct failover request fails, the invocation throws that
\* request's error (not an error or response of a proxied attempt) and
\* issues no further request.
C9_FailoverErrorSurfaced ==
    \A d \in Direct :
        (d \in DOMAIN settled /\ IsNetworkError(settled[d]))
        => ( /\ pc = "done"
             /\ outcome = [kind |-> "throw", value |-> settled[d]]
             /\ outcome.value.id = d
             /\ Len(requests) = d )

\* the proxy refused twice and the direct request was refused as well
C9_Witness ==
    /\ retryConfig.maxAttempts = 2
    /\ Direct = {3}
    /\ Len(settled) = 3
    /\ ConnectionRefused(settled[2])
    /\ ConnectionRefused(settled[3])
    /\ lastError = settled[2]
    /\ pc = "done"

RECURSIVE Doubled(_, _)
\* n doubled i times
Doubled(n, i) == IF i = 0 THEN n ELSE Doubled(n + n, i - 1)

\* C10: the sleep after a retryable outcome of proxied attempt i (0-indexed;
\* the request number i + 1) lasts min(initialDelayMs * 2^i, maxDelayMs), after
\* a response and after an error alike; with the defaults (3, 500, 5000) the
\* sleeps after attempts 0 and 1 last 500 and 1000.
C10_BackoffDelay ==
    /\ \A s \in DOMAIN sleeps :
         LET i == sleeps[s].at - 1
             d == Doubled(retryConfig.initialDelayMs, i)
         IN /\ sleeps[s].at \in Proxied
            /\ IsRetryableStatus(settled[i + 1]) \/ IsRetryableError(settled[i + 1])
            /\ sleeps[s].ms = IF d <= retryConfig.maxDelayMs
                              THEN d ELSE retryConfig.maxDelayMs
    /\ retryConfig = [maxAttempts |-> 3, initialDelayMs |-> 500, maxDelayMs |-> 5000]
         => \A s \in DOMAIN sleeps :
               /\ sleeps[s].at = 1 => sleeps[s].ms = 500
               /\ sleeps[s].at = 2 => sleeps[s].ms = 1000

\* a capped sleep after a 503 on attempt 0 and one after an error on attempt 1
C10_Witness ==
    /\ retryConfig.initialDelayMs = 3000
    /\ retryConfig.maxDelayMs = 5000
    /\ Len(sleeps) = 2
    /\ settled[1].kind = "response"
    /\ settled[2].kind = "error"
    /\ sleeps[1].ms = 3000
    /\ sleeps[2].ms = 5000

\* the default policy slept twice
C10_WitnessDefaults ==
    /\ retryConfig = [maxAttempts |-> 3, initialDelayMs |-> 500, maxDelayMs |-> 5000]
    /\ Len(sleeps) = 2

\* the sleep numbered s is still pending: it is the latest one and the
\* invocation is suspended in it
SleepPending(s) == s = Len(sleeps) /\ pc = "sleep"

\* C11: only attempts before the last incur a delay: for maxAttempts >= 1 at
\* most maxAttempts - 1 sleeps occur, none starts after the final proxied
\* attempt, and a sleep that has elapsed is followed by the next proxied
\* attempt (never by the failover request or by the completion).
C11_SleepsOnlyBetweenAttempts ==
    /\ retryConfig.maxAttempts >= 1 => Len(sleeps) <= retryConfig.maxAttempts - 1
    /\ \A s \in DOMAIN sleeps :
         /\ sleeps[s].at < retryConfig.maxAttempts
         /\ sleeps[s].at = Len(settled) \/ sleeps[s].at < Len(settled)
         /\ IF SleepPending(s)
            THEN Len(requests) = sleeps[s].at /\ outcome = Pending
            ELSE /\ Len(requests) > sleeps[s].at
                 /\ requests[sleeps[s].at + 1].to = "proxy"
    /\ \A s, t \in DOMAIN sleeps : s < t => sleeps[s].at < sleeps[t].at

\* two sleeps and three attempts, then the failover request
C11_Witness ==
    /\ retryConfig.maxAttempts = 3
    /\ Len(sleeps) = 2
    /\ Direct = {4}
    /\ pc = "done"

\* C12: a retryable outcome of a proxied attempt that is not the last allowed
\* one never completes the invocation: right after it the invocation is
\* suspended with no outcome, and the request that follows is the next
\* proxied attempt.
C12_NoCompletionMidLoop ==
    \A k \in Proxied :
        ( /\ k \in DOMAIN settled
          /\ k - 1 < retryConfig.maxAttempts - 1
          /\ IsRetryableStatus(settled[k]) \/ IsRetryableError(settled[k]) )
        => ( /\ Len(settled) = k => outcome = Pending /\ pc \in {"sleep", "fetch"}
             /\ Len(requests) = k => pc = "sleep"
             /\ Len(requests) > k => requests[k + 1].to = "proxy" )

\* the 504 answered to the first of three attempts was followed by a second
C12_Witness ==
    /\ retryConfig.maxAttempts = 3
    /\ Len(settled) >= 1
    /\ settled[1].kind = "response"
    /\ settled[1].status = 504
    /\ Len(requests) = 2
    /\ pc = "fetch"

\* C13 (as claimed): a completed invocation has returned a Response or thrown
\* an error, also when retry.maxAttempts <= 0; it never resolves with null.
C13_OutcomeIsResponseOrError ==
    /\ pc = "done" <=> outcome # Pending
    /\ pc = "done" =>
         \/ outcome.kind = "return" /\ outcome.value.kind = "response"
         \/ outcome.kind = "throw" /\ outcome.value.kind = "error"

----------------------------------------------------------------------------
(* Header merging, checked over configurations and callers whose header    *)
(* names collide                                                           *)

HeaderExtraChoices ==
    { <<>>,
      << <<"X-Tapes-Session", "configured-session">> >>,
      << <<"x-tapes-session", "first">>, <<"X-Tapes-Session", "second">> >>,
      << <<"Authorization", "Bearer configured">>,
         <<"X-Tapes-Original-Host", "configured.example">> >> }

HeaderInits ==
    Inits \cup
    { Some([headers |-> Undefined]),
      Some([headers |-> Some(<< <<"Authorization", "Bearer key">>,
                                <<"X-Tapes-Session", "caller-session">> >>)]) }

HeaderInputs ==
    Inputs \cup
    { [protocol |-> "http:", host |-> "localhost:11434",
       pathname |-> "/api/chat", search |-> ""] }

HeaderRetryChoices ==
    { Some([maxAttempts |-> Some(2), initialDelayMs |-> Undefined,
            maxDelayMs |-> Undefined]) }

InitHeaders ==
    /\ InitWith(ProxyUrls, HeaderExtraChoices, BOOLEAN, HeaderRetryChoices, BOOLEAN,
                HeaderInputs, HeaderInits)
    /\ Alone

SpecHeaders == InitHeaders /\ [][Next]_vars

\* the header names the wrapper is configured with, lower-cased
ExtraHeaderNames == {LowerCase(extraHeaders[i][1]) : i \in DOMAIN extraHeaders}

\* the value configured for the header called name: the last entry wins
ExtraHeaderValue(name) ==
    LET is == {i \in DOMAIN extraHeaders : LowerCase(extraHeaders[i][1]) = name}
    IN extraHeaders[CHOOSE i \in is : \A j \in is : j <= i][2]

\* C14 (as claimed): on every proxied request, a header name that appears in
\* both the caller's headers and the configured extra headers is sent with
\* the extra headers' value.
C14_ExtraHeadersWin ==
    \A k \in Proxied :
        \A n \in CallerHeaderNames \cap ExtraHeaderNames :
            /\ n \in DOMAIN requests[k].headers
            /\ requests[k].headers[n] = ExtraHeaderValue(n)

\* C14 (amended): on every proxied request the headers are the caller's
\* headers overlaid with the configured extra headers, and on top of both
\* X-Tapes-Original-Host: a name other than X-Tapes-Original-Host that
\* appears in both is sent with the extra headers' value.
C14_ExtraHeadersWinExceptHost ==
    \A k \in Proxied :
        LET h == requests[k].headers IN
        /\ DOMAIN h = CallerHeaderNames \cup ExtraHeaderNames \cup {"x-tapes-original-host"}
        /\ \A n \in DOMAIN h \ {"x-tapes-original-host"} :
             h[n] = IF n \in ExtraHeaderNames THEN ExtraHeaderValue(n)
                    ELSE CallerHeaderValue(n)

\* caller and configuration both name the session header (in different
\* case); the proxy is sent the configured value
C14_Witness ==
    /\ "x-tapes-session" \in CallerHeaderNames \cap ExtraHeaderNames
    /\ CallerHeaderValue("x-tapes-session") = "caller-session"
    /\ Len(requests) = 2
    /\ requests[2].to = "proxy"
    /\ requests[2].headers["x-tapes-session"] = "configured-session"

\* C15: every request sent to the proxy carries X-Tapes-Original-Host equal
\* to the host of the original target, whatever the caller's headers or the
\* configured extra headers hold under that name.
C15_OriginalHostAlwaysSent ==
    \A k \in Proxied :
        /\ "x-tapes-original-host" \in DOMAIN requests[k].headers
        /\ requests[k].headers["x-tapes-original-host"] = input.host

\* caller and configuration both supply X-Tapes-Original-Host themselves
C15_Witness ==
    /\ "x-tapes-original-host" \in CallerHeaderNames \cap ExtraHeaderNames
    /\ input.host = "localhost:11434"
    /\ Len(requests) = 2
    /\ requests[2].to = "proxy"
    /\ requests[2].headers["x-tapes-original-host"] = "localhost:11434"

----------------------------------------------------------------------------
(* URL rewriting, checked over proxy URLs with and without a path and over *)
(* original targets of several shapes                                      *)

UrlProxyUrls ==
    { "http://localhost:8080", "http://localhost:8080/", "https://tapes.internal/record" }

UrlInputs ==
    Inputs \cup
    { [protocol |-> "http:", host |-> "localhost:11434",
       pathname |-> "/api/chat", search |-> ""],
      [protocol |-> "https:", host |-> "api.anthropic.com",
       pathname |-> "/", search |-> "?beta=true"],
      [protocol |-> "https:", host |-> "api.openai.com",
       pathname |-> "//v1/chat/completions", search |-> "?stream=1"] }

InitUrl ==
    /\ InitWith(UrlProxyUrls, {<<>>}, BOOLEAN, HeaderRetryChoices, BOOLEAN,
                UrlInputs, {Undefined})
    /\ Alone

SpecUrl == InitUrl /\ [][Next]_vars

\* C16 (as claimed): the URL of every proxied request has the proxy's scheme,
\* host and port and exactly the path and query string of the original target.
C16_ProxiedUrlKeepsPathAndQuery ==
    \A k \in Proxied :
        LET sent == ParseUrl(requests[k].url)
            proxy == ParseUrl(normalizedProxyUrl)
        IN /\ sent.protocol = proxy.protocol
           /\ sent.host = proxy.host
           /\ sent.pathname = input.pathname
           /\ sent.search = input.search

----------------------------------------------------------------------------

\* requests issued and not yet settled
InFlight == Len(requests) - Len(settled)

\* C19: attempts are strictly serial: at most one request (proxied or
\* direct) is in flight at any time, none is in flight during a backoff
\* sleep, a request is only issued once all earlier ones have settled, and
\* the step that starts a sleep issues no request.
C19_StrictlySerial ==
    /\ [](InFlight \in {0, 1})
    /\ [](pc = "sleep" => InFlight = 0)
    /\ [][ /\ requests' # requests =>
                /\ Len(requests') = Len(requests) + 1
                /\ Len(settled') = Len(requests)
           /\ Len(sleeps') > Len(sleeps) => requests' = requests /\ pc' = "sleep"
         ]_vars

\* the third request is in flight after one sleep and one unslept retry
C19_Witness ==
    /\ pc = "fetch"
    /\ Len(requests) = 3
    /\ Len(settled) = 2
    /\ Len(sleeps) = 1

----------------------------------------------------------------------------
(* Two invocations.  Each invocation of tapesFetch has its own arguments   *)
(* and locals; the event loop runs one continuation at a time, and while   *)
(* an invocation is suspended at an await (or has not been called yet, or  *)
(* has completed) a continuation of the other one may run.  The running    *)
(* invocation is held in the variables, the other one in parked.           *)

\* the running invocation, with the closure of the wrapper it was made from
Running ==
    [normalizedProxyUrl |-> normalizedProxyUrl, extraHeaders |-> extraHeaders,
     debug |-> debug, retryConfig |-> retryConfig, failover |-> failover,
     input |-> input, init |-> init,
     originalUrl |-> originalUrl, proxiedUrl |-> proxiedUrl,
     requestInit |-> requestInit, attempt |-> attempt,
     lastError |-> lastError, lastResponse |-> lastResponse,
     pc |-> pc, requests |-> requests, settled |-> settled, sleeps |-> sleeps,
     console |-> console, outcome |-> outcome]

\* all of an invocation's state but its loop counter becomes the running one
ResumeButAttempt(r) ==
    /\ normalizedProxyUrl' = r.normalizedProxyUrl
    /\ extraHeaders' = r.extraHeaders
    /\ debug' = r.debug
    /\ retryConfig' = r.retryConfig
    /\ failover' = r.failover
    /\ input' = r.input
    /\ init' = r.init
    /\ originalUrl' = r.originalUrl
    /\ proxiedUrl' = r.proxiedUrl
    /\ requestInit' = r.requestInit
    /\ lastError' = r.lastError
    /\ lastResponse' = r.lastResponse
    /\ pc' = r.pc
    /\ requests' = r.requests
    /\ settled' = r.settled
    /\ sleeps' = r.sleeps
    /\ console' = r.console
    /\ outcome' = r.outcome

\* variant: the loop counter is declared outside tapesFetch, one for all
\* invocations
Switch_sharedAttempt ==
    /\ parked # Undefined
    /\ parked' = Some(Running)
    /\ ResumeButAttempt(CHOOSE r \in parked : TRUE)
    /\ UNCHANGED <<attempt, config, signal, server>>

\* the event loop turns to the other invocation: every local of tapesFetch
\* (let attempt, lastError, lastResponse, ...) belongs to one invocation
Switch ==
    /\ parked # Undefined
    /\ parked' = Some(Running)
    /\ ResumeButAttempt(CHOOSE r \in parked : TRUE)
    /\ attempt' = (CHOOSE r \in parked : TRUE).attempt
    /\ UNCHANGED <<config, signal, server>>

PairStatuses == {200, 503}

PairErrors ==
    { [message |-> "fetch failed", code |-> "ECONNREFUSED"],
      [message |-> "This operation was aborted", code |-> ""] }

PairRetryChoices ==
    { Some([maxAttempts |-> Some(n), initialDelayMs |-> Undefined,
            maxDelayMs |-> Undefined]) : n \in {2, 3} }

NextPair ==
    \/ Switch
    \/ TapesFetch
    \/ \E status \in PairStatuses : ProxyResponds(status)
    \/ \E e \in PairErrors : ProxyRejects(e)
    \/ SleepResolves
    \/ \E status \in PairStatuses : DirectResponds(status)
    \/ \E e \in PairErrors : DirectRejects(e)

\* two invocations of one wrapper, each with arguments of its own
InitConc ==
    /\ InitWith({"http://localhost:8080"}, {<<>>}, {FALSE}, PairRetryChoices, BOOLEAN,
                Inputs, Inits)
    /\ \E i \in Inits : parked = Some([Running EXCEPT !.init = i])
    /\ config = Undefined
    /\ Apart

SpecConc == InitConc /\ [][NextPair]_vars

\* the other invocation
Other == CHOOSE r \in parked : TRUE

\* C17: concurrent invocations of one wrapper are independent: what an
\* invocation has issued, slept and produced is a function of the config, its
\* arguments and the outcomes of its own requests; so two invocations with the
\* same arguments that have seen the same outcomes and stand at the same
\* point agree on all of it, however the other one has progressed meanwhile.
C17_InvocationsIndependent ==
    ( /\ Other.input = input
      /\ Other.init = init
      /\ Other.settled = settled
      /\ Other.pc = pc )
    => ( /\ Other.requests = requests
         /\ Other.sleeps = sleeps
         /\ Other.outcome = outcome )

\* both invocations are in flight at once, at different attempts
C17_Witness ==
    /\ pc = "fetch"
    /\ Other.pc = "sleep"
    /\ Len(requests) = 2
    /\ Len(Other.requests) = 1
    /\ Other.init = init

\* two invocations with the same arguments, of two wrappers made from
\* configs that differ in debug only
InitDebug ==
    /\ InitWith({"http://localhost:8080"}, ExtraHeaderChoices, BOOLEAN, PairRetryChoices,
                BOOLEAN, Inputs, {Undefined})
    /\ parked = Some([Running EXCEPT !.debug = ~debug])
    /\ config = Undefined
    /\ Apart

SpecDebug == InitDebug /\ [][NextPair]_vars

\* C20: debug logging never affects control flow: of two invocations with the
\* same inputs, one with debug enabled and one with debug disabled, that have
\* seen the same network outcomes and stand at the same point, both have
\* issued the same requests, slept the same delays and produced the same
\* outcome.
C20_DebugDoesNotSteer ==
    ( /\ Other.debug # debug
      /\ Other.settled = settled
      /\ Other.pc = pc )
    => ( /\ Other.requests = requests
         /\ Other.sleeps = sleeps
         /\ Other.outcome = outcome )

\* both invocations have completed after the same three outcomes, the one
\* with debug enabled has logged, the other has not
C20_Witness ==
    /\ debug
    /\ ~Other.debug
    /\ pc = "done"
    /\ Other.pc = "done"
    /\ Len(settled) = 3
    /\ Other.settled = settled
    /\ Len(sleeps) = 1
    /\ console # <<>>
    /\ Other.console = <<>>

----------------------------------------------------------------------------
(* The caller keeps the config object it passed to createTapesFetch and    *)
(* writes to it afterwards.  createTapesFetch copied the numbers of        *)
(* config.retry, config.failover, debug and the proxy URL string; the      *)
(* extraHeaders of the closure is config.headers itself, the same object.  *)

ConfigChoices ==
    { [proxyUrl |-> "http://localhost:8080", headers |-> h, debug |-> Undefined,
       retry |-> r, failover |-> f] :
        h \in {Undefined, Some(<< <<"X-Tapes-Session", "configured-session">> >>)},
        r \in {Undefined} \cup PairRetryChoices,
        f \in {Undefined, Some(TRUE)} }

InitConfig ==
    /\ \E c \in ConfigChoices :
         /\ InitWith({c.proxyUrl}, {Nullish(c.headers, <<>>)}, {Nullish(c.debug, FALSE)},
                     {c.retry}, {Nullish(c.failover, FALSE)}, Inputs, Inits)
         /\ config = Some([now |-> c, atConstruction |-> c])
    /\ parked = Undefined
    /\ Apart

\* the config object as the caller holds it now / as it was when
\* createTapesFetch ran
ConfigNow == (CHOOSE c \in config : TRUE).now

ConfigAtConstruction == (CHOOSE c \in config : TRUE).atConstruction

\* object[name] = value on an object given by its entries
SetProperty(entries, name, value) ==
    IF \E i \in DOMAIN entries : entries[i][1] = name
    THEN [i \in DOMAIN entries |->
            IF entries[i][1] = name THEN <<name, value>> ELSE entries[i]]
    ELSE Append(entries, <<name, value>>)

\* the caller runs config.headers[name] = value: the object is the one the
\* closure calls extraHeaders
MutateConfigHeaders(name, value) ==
    /\ config # Undefined
    /\ ConfigNow.headers # Undefined
    /\ LET entries == SetProperty(extraHeaders, name, value) IN
       /\ extraHeaders' = entries
       /\ config' = Some([now |-> [ConfigNow EXCEPT !.headers = Some(entries)],
                          atConstruction |-> ConfigAtConstruction])
    /\ UNCHANGED <<normalizedProxyUrl, debug, retryConfig, failover, parked,
                   arguments, locals, attempt, lastError, lastResponse,
                   pc, requests, settled, sleeps, console, outcome, signal, server>>

\* the caller runs config.retry.maxAttempts = n: retryConfig is another object
MutateConfigRetry(n) ==
    /\ config # Undefined
    /\ ConfigNow.retry # Undefined
    /\ config' = Some([now |-> [ConfigNow EXCEPT !.retry =
                                   Some([(CHOOSE r \in ConfigNow.retry : TRUE)
                                            EXCEPT !.maxAttempts = Some(n)])],
                       atConstruction |-> ConfigAtConstruction])
    /\ UNCHANGED <<closure, parked, arguments, locals, attempt, lastError,
                   lastResponse, pc, requests, settled, sleeps, console, outcome,
                   signal, server>>

\* the caller runs config.failover = b: failover of the closure is a copy
MutateConfigFailover(b) ==
    /\ config # Undefined
    /\ config' = Some([now |-> [ConfigNow EXCEPT !.failover = Some(b)],
                       atConstruction |-> ConfigAtConstruction])
    /\ UNCHANGED <<closure, parked, arguments, locals, attempt, lastError,
                   lastResponse, pc, requests, settled, sleeps, console, outcome,
                   signal, server>>

NextConfig ==
    \/ MutateConfigHeaders("X-Tapes-Session", "mutated-session")
    \/ MutateConfigRetry(1)
    \/ \E b \in BOOLEAN : MutateConfigFailover(b)
    \/ TapesFetch
    \/ \E status \in PairStatuses : ProxyResponds(status)
    \/ \E e \in PairErrors : ProxyRejects(e)
    \/ SleepResolves
    \/ \E status \in PairStatuses : DirectResponds(status)
    \/ \E e \in PairErrors : DirectRejects(e)

SpecConfig == InitConfig /\ [][NextConfig]_vars

\* the retry policy createTapesFetch derived from the config it was given
RetryAtConstruction ==
    LET r == Nullish(ConfigAtConstruction.retry,
                     [maxAttempts |-> Undefined, initialDelayMs |-> Undefined,
                      maxDelayMs |-> Undefined])
    IN [maxAttempts |-> Nullish(r.maxAttempts, 3),
        initialDelayMs |-> Nullish(r.initialDelayMs, 500),
        maxDelayMs |-> Nullish(r.maxDelayMs, 5000)]

\* C18 (as claimed): writes to the config object, or to its headers or retry
\* sub-objects, after construction change nothing of a later invocation: its
\* proxied URL, outbound headers, attempt limit, delays and failover are those
\* of the config as it was when createTapesFetch ran.
C18_ConfigImmutable ==
    /\ \A k \in Proxied :
         /\ requests[k].url =
              ProxiedHref(input, NormalizeProxyUrl(ConfigAtConstruction.proxyUrl))
         /\ requests[k].headers =
              MergedHeaders(init, Nullish(ConfigAtConstruction.headers, <<>>), input.host)
    /\ Cardinality(Proxied) <= RetryAtConstruction.maxAttempts
    /\ \A s \in DOMAIN sleeps :
         sleeps[s].ms = Delay(sleeps[s].at - 1, RetryAtConstruction)
    /\ Direct # {} => Nullish(ConfigAtConstruction.failover, FALSE)

----------------------------------------------------------------------------
(* Cancellation.  The caller passes an AbortSignal as init.signal and may  *)
(* fire it at any time.  Both fetch calls are given { ...init, ... } and   *)
(* so the signal: a fetch in flight when the signal fires rejects with an  *)
(* AbortError, and so does a fetch called after it has fired, without any  *)
(* network activity.  sleep(ms) is not given the signal.                   *)

\* the rejection of a fetch whose signal has fired
AbortError == [message |-> "This operation was aborted", code |-> ""]

Aborted == signal.state = "aborted"

\* the caller fires the signal; the signal remembers how many requests had
\* been issued and how many sleeps had ended by then
Abort ==
    /\ signal.state = "pending"
    /\ pc # "done"
    /\ signal' = [state |-> "aborted", requests |-> Len(requests),
                  sleeps |-> IF pc = "sleep" THEN Len(sleeps) - 1 ELSE Len(sleeps)]
    /\ UNCHANGED <<closure, arguments, locals, attempt, lastError, lastResponse,
                   pc, requests, settled, sleeps, console, outcome,
                   parked, config, server>>

NextAbort ==
    \/ Abort
    \/ TapesFetch
    \/ ~Aborted /\ \E status \in PairStatuses : ProxyResponds(status)
    \/ ~Aborted /\ \E e \in PairErrors : ProxyRejects(e)
    \/ Aborted /\ ProxyRejects(AbortError)
    \/ SleepResolves
    \/ ~Aborted /\ \E status \in PairStatuses : DirectResponds(status)
    \/ ~Aborted /\ \E e \in PairErrors : DirectRejects(e)
    \/ Aborted /\ DirectRejects(AbortError)

\* an invocation whose options carry a signal that has not fired yet
InitAbort ==
    /\ InitWith({"http://localhost:8080"}, {<<>>}, BOOLEAN, PairRetryChoices, BOOLEAN,
                Inputs, Inits \ {Undefined})
    /\ parked = Undefined
    /\ config = Undefined
    /\ signal = [state |-> "pending", requests |-> 0, sleeps |-> 0]
    /\ ServerIdle

SpecAbort == InitAbort /\ [][NextAbort]_vars

\* the s-th sleep has run its whole delay: the promise of sleep(ms) settles
\* in one way only, by its timer
WaitedOut(s) == s < Len(sleeps) \/ (s = Len(sleeps) /\ pc # "sleep")

\* C21 (as claimed): once the signal has fired, no further request goes out
\* (a fetch called afterwards is rejected with an AbortError before it
\* reaches the network) and no backoff sleep that was pending then, or was
\* started later, is waited out.
C21_AbortShortCircuits ==
    Aborted =>
        /\ \A k \in DOMAIN settled :
             k > signal.requests =>
                /\ settled[k].kind = "error"
                /\ settled[k].message = AbortError.message
        /\ \A s \in DOMAIN sleeps : s > signal.sleeps => ~WaitedOut(s)

----------------------------------------------------------------------------
(* Termination.  The environment settles every fetch it was handed and     *)
(* fires every timer; the continuation of an await runs as soon as the     *)
(* awaited promise has settled.  Each of these steps stays enabled until   *)
(* it is taken.                                                            *)

ProxySettles ==
    \/ \E status \in Statuses : ProxyResponds(status)
    \/ \E e \in NetworkErrors : ProxyRejects(e)

DirectSettles ==
    \/ \E status \in Statuses : DirectResponds(status)
    \/ \E e \in NetworkErrors : DirectRejects(e)

Fairness ==
    /\ WF_vars(ProxySettles)
    /\ WF_vars(SleepResolves)
    /\ WF_vars(DirectSettles)

SpecLive == Init /\ [][Next]_vars /\ Fairness

\* C22: every invocation terminates: once called it eventually completes, by
\* returning or by throwing, and it issues finitely many requests on the
\* way, at most maxAttempts proxied ones and one direct one.
C22_Terminates ==
    /\ (pc # "idle") ~> (pc = "done" /\ outcome.kind \in {"return", "throw"})
    /\ [](Len(requests) <= retryConfig.maxAttempts + 1)
    /\ [](Len(sleeps) <= retryConfig.maxAttempts)

\* an invocation has completed after the longest run there is: three proxied
\* attempts, two sleeps and the direct request
C22_Witness ==
    /\ pc = "done"
    /\ retryConfig.maxAttempts = 3
    /\ Len(requests) = 4
    /\ Len(sleeps) = 2
    /\ outcome.kind = "throw"

----------------------------------------------------------------------------
(* The chat server.  sessions is the Map from session ids to message       *)
(* arrays.  An array is an object: the Map and every POST handler that     *)
(* fetched it hold a reference to it, so heap lists the arrays ever        *)
(* allocated and sessions and handlers hold indices into heap.  A handler  *)
(* is the part of app.post that is suspended at await generateText; the    *)
(* event loop runs one handler step at a time.  Requests are numbered in   *)
(* the order they arrive; a message carries the number of the request      *)
(* that pushed it (of), which the program does not store.                  *)

MaxRequests == 3

SessionIds == {"A", "B"}

\* req.body of a request: sessionId and message may each be missing
Bodies ==
    { [sessionId |-> id, message |-> m] :
        id \in {Undefined, Some("")} \cup {Some(a) : a \in SessionIds},
        m \in {Undefined, Some(""), Some("  "), Some(" hi ")} }

\* what generateText may resolve with as text
Texts == {"", "reply"}

\* everything outside the server
wrapper == <<closure, arguments, locals, attempt, lastError, lastResponse,
             pc, requests, settled, sleeps, console, outcome,
             parked, config, signal>>

\* String.prototype.trim, for strings padded with spaces
Trim(s) ==
    LET keep == {i \in 1..Len(s) : SubSeq(s, i, i) # " "}
    IN IF keep = {} THEN ""
       ELSE SubSeq(s, CHOOSE i \in keep : \A j \in keep : i <= j,
                      CHOOSE i \in keep : \A j \in keep : j <= i)

\* a || '' on an optional string: undefined and '' are both falsy
OrEmpty(opt) == Nullish(opt, "")

\* !value on an optional string
Falsy(opt) == opt = Undefined \/ opt = Some("")

\* Map.prototype.set / Map.prototype.delete
MapSet(m, k, v) == [x \in DOMAIN m \cup {k} |-> IF x = k THEN v ELSE m[x]]

MapDelete(m, k) == [x \in DOMAIN m \ {k} |-> m[x]]

\* Array.prototype.pop: removes the last element, whichever it is
Pop(a) == IF a = <<>> THEN a ELSE SubSeq(a, 1, Len(a) - 1)

\* the number of requests received so far: each has been answered or is
\* suspended
Received == Len(replies) + Cardinality(DOMAIN handlers)

\* the POST handlers suspended for the session id
InFlightFor(id) == {r \in DOMAIN handlers : handlers[r].sessionId = id}

\* the HTTP reply to the request req; inflight is set by DELETE only and
\* remembers which POSTs of the session were suspended when it ran
Reply(req, op, idOpt, status, text, inflight) ==
    [req |-> req, op |-> op, sessionId |-> idOpt, status |-> status,
     text |-> text, inflight |-> inflight]

\* variant: the session entry is looked up or created before the request
\* is validated
PostChat_createFirst(body) ==
    /\ Received < MaxRequests
    /\ LET req == Received + 1
           message == Trim(OrEmpty(body.message))
           sessionId == Nullish(body.sessionId, "")
           created == sessionId \notin DOMAIN sessions
           heap1 == IF created THEN Append(heap, <<>>) ELSE heap
           sessions1 == IF created THEN MapSet(sessions, sessionId, Len(heap1))
                        ELSE sessions
           messages == sessions1[sessionId]
           pushed == [heap1 EXCEPT ![messages] =
                        Append(@, [role |-> "user", content |-> message, of |-> req])]
       IN /\ sessions' = sessions1
          /\ IF message = "" \/ Falsy(body.sessionId)
             THEN /\ replies' = Append(replies,
                                       Reply(req, "POST", body.sessionId, 400, "", {}))
                  /\ heap' = heap1
                  /\ UNCHANGED <<handlers, generations>>
             ELSE /\ heap' = pushed
                  /\ handlers' = MapSet(handlers, req,
                                        [sessionId |-> sessionId, messages |-> messages])
                  /\ generations' = Append(generations,
                                           [req |-> req, sessionId |-> sessionId,
                                            messages |-> pushed[messages]])
                  /\ UNCHANGED replies
    /\ UNCHANGED wrapper

\* POST /api/chat up to its await: validate, get or create the session's
\* array, push the user message, call generateText with the array
PostChat(body) ==
    /\ Received < MaxRequests
    /\ LET req == Received + 1
           message == Trim(OrEmpty(body.message))
       IN IF message = "" \/ Falsy(body.sessionId)
          THEN /\ replies' = Append(replies,
                                    Reply(req, "POST", body.sessionId, 400, "", {}))
               /\ UNCHANGED <<sessions, heap, handlers, generations>>
          ELSE LET sessionId == CHOOSE id \in body.sessionId : TRUE
                   created == sessionId \notin DOMAIN sessions
                   heap1 == IF created THEN Append(heap, <<>>) ELSE heap
                   sessions1 == IF created THEN MapSet(sessions, sessionId, Len(heap1))
                                ELSE sessions
                   messages == sessions1[sessionId]
                   pushed == [heap1 EXCEPT ![messages] =
                                Append(@, [role |-> "user", content |-> message,
                                           of |-> req])]
               IN /\ sessions' = sessions1
                  /\ heap' = pushed
                  /\ handlers' = MapSet(handlers, req,
                                        [sessionId |-> sessionId, messages |-> messages])
                  /\ generations' = Append(generations,
                                           [req |-> req, sessionId |-> sessionId,
                                            messages |-> pushed[messages]])
                  /\ UNCHANGED replies
    /\ UNCHANGED wrapper

\* generateText resolves: push the assistant message, or pop when the text
\* is empty; reply with the text
GenerateResolves(req, text) ==
    /\ req \in DOMAIN handlers
    /\ LET h == handlers[req] IN
       /\ heap' = [heap EXCEPT ![h.messages] =
                     IF text # ""
                     THEN Append(@, [role |-> "assistant", content |-> text, of |-> req])
                     ELSE Pop(@)]
       /\ replies' = Append(replies, Reply(req, "POST", Some(h.sessionId), 200, text, {}))
    /\ handlers' = MapDelete(handlers, req)
    /\ UNCHANGED <<sessions, generations, wrapper>>

\* generateText (or anything else in the try block) throws: pop, reply 500
GenerateRejects(req) ==
    /\ req \in DOMAIN handlers
    /\ LET h == handlers[req] IN
       /\ heap' = [heap EXCEPT ![h.messages] = Pop(@)]
       /\ replies' = Append(replies, Reply(req, "POST", Some(h.sessionId), 500, "", {}))
    /\ handlers' = MapDelete(handlers, req)
    /\ UNCHANGED <<sessions, generations, wrapper>>

\* variant: the session's array is emptied in place and stays in the Map
DeleteChat_truncate(idOpt) ==
    /\ Received < MaxRequests
    /\ LET sessionId == Nullish(idOpt, "") IN
       /\ heap' = IF sessionId \in DOMAIN sessions
                  THEN [heap EXCEPT ![sessions[sessionId]] = <<>>]
                  ELSE heap
       /\ replies' = Append(replies,
                            Reply(Received + 1, "DELETE", idOpt, 200, "ok",
                                  InFlightFor(sessionId)))
    /\ UNCHANGED <<sessions, handlers, generations, wrapper>>

\* variant: every session is dropped, sessions.clear()
DeleteChat_clearAll(idOpt) ==
    /\ Received < MaxRequests
    /\ LET sessionId == Nullish(idOpt, "") IN
       /\ sessions' = IF Falsy(idOpt) THEN sessions ELSE EmptyMap
       /\ replies' = Append(replies,
                            Reply(Received + 1, "DELETE", idOpt, 200, "ok",
                                  InFlightFor(sessionId)))
    /\ UNCHANGED <<heap, handlers, generations, wrapper>>

\* DELETE /api/chat: drop the session's entry from the Map
DeleteChat(idOpt) ==
    /\ Received < MaxRequests
    /\ LET sessionId == Nullish(idOpt, "") IN
       /\ sessions' = IF Falsy(idOpt) THEN sessions ELSE MapDelete(sessions, sessionId)
       /\ replies' = Append(replies,
                            Reply(Received + 1, "DELETE", idOpt, 200, "ok",
                                  InFlightFor(sessionId)))
    /\ UNCHANGED <<heap, handlers, generations, wrapper>>

NextServer ==
    \/ \E body \in Bodies : PostChat(body)
    \/ \E req \in DOMAIN handlers, text \in Texts : GenerateResolves(req, text)
    \/ \E req \in DOMAIN handlers : GenerateRejects(req)
    \/ \E body \in Bodies : DeleteChat(body.sessionId)

\* the server alone; the wrapper it reaches the model through is not called
InitServer ==
    /\ InitWith({"http://localhost:8080"}, {<<>>}, {FALSE}, {Undefined}, {FALSE},
                Inputs, {Undefined})
    /\ Alone

SpecServer == InitServer /\ [][NextServer]_vars

\* the history the Map holds for a session that has an entry
Stored(id) == heap[sessions[id]]

\* the same for any session id: absent when the Map has no entry
StoredOrNone(id) == IF id \in DOMAIN sessions THEN Some(Stored(id)) ELSE Undefined

UserMessage(m, r) == m.role = "user" /\ m.of = r

\* the POSTs that failed (500) or yielded empty text; those that succeeded
Failed ==
    { replies[i].req : i \in { j \in DOMAIN replies :
        /\ replies[j].op = "POST"
        /\ replies[j].status = 500 \/ (replies[j].status = 200 /\ replies[j].text = "") } }

Succeeded ==
    { replies[i].req : i \in { j \in DOMAIN replies :
        /\ replies[j].op = "POST"
        /\ replies[j].status = 200
        /\ replies[j].text # "" } }

\* C23 (as claimed): the message a failed or empty-text POST removes is its
\* own user message, under every interleaving: a request that has failed
\* leaves none of its messages behind, a request that is still suspended
\* has its user message in its array, and a request that succeeded keeps
\* its user message and its reply.
C23_FailedPostRemovesOwnMessage ==
    /\ \A r \in Failed :
         \A a \in DOMAIN heap : \A i \in DOMAIN heap[a] : heap[a][i].of # r
    /\ \A r \in DOMAIN handlers :
         \E i \in DOMAIN heap[handlers[r].messages] :
            UserMessage(heap[handlers[r].messages][i], r)
    /\ \A r \in Succeeded :
         \E a \in DOMAIN heap :
            Cardinality({i \in DOMAIN heap[a] : heap[a][i].of = r}) = 2

\* user, assistant, user, assistant, ...
Alternating(h) ==
    /\ Len(h) % 2 = 0
    /\ \A i \in DOMAIN h : h[i].role = IF i % 2 = 1 THEN "user" ELSE "assistant"

\* C26 (as claimed): whenever no POST is in flight for a session, its stored
\* history alternates user, assistant, ... and has even length.
C26_HistoryAlternates ==
    \A id \in DOMAIN sessions : InFlightFor(id) = {} => Alternating(Stored(id))

\* the DELETE requests that named a session, by their place in replies
Deletes ==
    {d \in DOMAIN replies : replies[d].op = "DELETE" /\ ~Falsy(replies[d].sessionId)}

\* C27: after a DELETE for a session has completed, the stored history of
\* the session and the history any later POST of the session hands to the
\* model hold only messages of requests that arrived after the DELETE: the
\* next POST starts from an empty history, and neither the user message nor
\* the later reply of a POST that was in flight when the DELETE ran shows up.
C27_DeleteStartsAfresh ==
    \A d \in Deletes :
        LET id == CHOOSE s \in replies[d].sessionId : TRUE
            later == {g \in DOMAIN generations :
                        /\ generations[g].sessionId = id
                        /\ generations[g].req > replies[d].req}
        IN /\ id \in DOMAIN sessions =>
                \A i \in DOMAIN Stored(id) : Stored(id)[i].of > replies[d].req
           /\ \A g \in later :
                /\ \A i \in DOMAIN generations[g].messages :
                      /\ generations[g].messages[i].of > replies[d].req
                      /\ generations[g].messages[i].of \notin replies[d].inflight
                /\ (\A h \in later : g <= h) => Len(generations[g].messages) = 1

\* a POST was suspended when the DELETE of its session ran, its reply came
\* afterwards and went to the dropped array; a later POST of the session
\* has started from its own message alone
C27_Witness ==
    \E d \in Deletes :
        /\ replies[d].inflight # {}
        /\ replies[d].inflight \subseteq Succeeded
        /\ LET id == CHOOSE s \in replies[d].sessionId : TRUE IN
           /\ id \in DOMAIN sessions
           /\ Len(Stored(id)) = 1
           /\ Stored(id)[1].of > replies[d].req
           /\ \E a \in DOMAIN heap :
                /\ a # sessions[id]
                /\ Len(heap[a]) = 2
                /\ heap[a][2].role = "assistant"

\* C28: a POST rejected with status 400 leaves the session store as it was:
\* no entry is created, no history is modified, no handler is left behind
\* and nothing is sent to the model.
C28_RejectionLeavesStore ==
    [][ ( /\ Len(replies') > Len(replies)
          /\ replies'[Len(replies')].status = 400 )
        => UNCHANGED <<sessions, heap, handlers, generations>> ]_vars

\* both kinds of rejection have happened: a blank message for a session
\* that has a history, and a request without sessionId
C28_Witness ==
    /\ \E k \in DOMAIN replies :
         /\ replies[k].status = 400
         /\ replies[k].sessionId = Some("A")
         /\ replies[k].req > 1
    /\ \E k \in DOMAIN replies :
         /\ replies[k].status = 400
         /\ replies[k].sessionId = Undefined
    /\ "A" \in DOMAIN sessions
    /\ Len(Stored("A")) = 1

\* the session a step acts for: that of the reply it sends, else that of the
\* handler it suspends
ActingFor ==
    IF Len(replies') > Len(replies)
    THEN replies'[Len(replies')].sessionId
    ELSE Some(handlers'[Received + 1].sessionId)

\* C29: sessions are isolated: a step taken for one session leaves the
\* stored history of every other session as it was.
C29_SessionsIsolated ==
    [][ \A b \in SessionIds :
          ActingFor # Some(b) => StoredOrNone(b)' = StoredOrNone(b) ]_vars

\* session B holds a complete exchange while session A, with a POST in
\* flight, has been deleted
C29_Witness ==
    /\ "B" \in DOMAIN sessions
    /\ Alternating(Stored("B"))
    /\ Len(Stored("B")) = 2
    /\ "A" \notin DOMAIN sessions
    /\ \E d \in Deletes :
         /\ replies[d].sessionId = Some("A")
         /\ replies[d].inflight # {}

----------------------------------------------------------------------------
(* The shapes of input.  fetch(input, init) takes a string, a URL or a     *)
(* Request; of a Request it sends the method, the headers and the body,    *)
(* each unless init names its own.                                         *)

ShapeInputs ==
    Inputs \cup
    { [string |-> "https://api.openai.com/v1/chat/completions?stream=1"],
      [url |-> "https://api.openai.com/v1/chat/completions?stream=1",
       method |-> "POST",
       headers |-> << <<"Authorization", "Bearer key">> >>,
       body |-> Some("payload")],
      [url |-> "http://localhost:11434/api/tags",
       method |-> "GET", headers |-> <<>>, body |-> Undefined] }

ShapeInits ==
    { Undefined,
      Some([method |-> Some("POST"),
            headers |-> Some(<< <<"Authorization", "Bearer key">> >>),
            body |-> Some("payload")]) }

InitShapes ==
    /\ InitWith(ProxyUrls, ExtraHeaderChoices, BOOLEAN, HeaderRetryChoices, BOOLEAN,
                ShapeInputs, ShapeInits)
    /\ Alone

SpecShapes == InitShapes /\ [][Next]_vars

IsRequest(in) == "url" \in DOMAIN in

\* the method, body and headers of the original request, as
\* fetch(input, init) would send them
OriginalMethod ==
    Nullish(InitField(init, "method"), IF IsRequest(input) THEN input.method ELSE "GET")

OriginalBody ==
    IF InitField(init, "body") # Undefined THEN InitField(init, "body")
    ELSE IF IsRequest(input) THEN input.body ELSE Undefined

OriginalHeaders ==
    IF InitField(init, "headers") # Undefined THEN NewHeaders(init)
    ELSE IF IsRequest(input) THEN AppendAll(EmptyHeaders, input.headers)
    ELSE EmptyHeaders

\* C25 (as claimed): whatever the shape of input, every proxied request
\* carries the original request's method and body, and each of its headers
\* (with the original value, unless the configuration or the original-host
\* header overrides that name).
C25_ShapesKeepMethodHeadersBody ==
    \A k \in Proxied :
        /\ requests[k].method = OriginalMethod
        /\ requests[k].body = OriginalBody
        /\ \A n \in DOMAIN OriginalHeaders :
             /\ n \in DOMAIN requests[k].headers
             /\ n \notin ExtraHeaderNames \cup {"x-tapes-original-host"} =>
                    requests[k].headers[n] = OriginalHeaders[n]

----------------------------------------------------------------------------
(* The plain wrapper of tapes-fetch.js: the same rewriting of URL and      *)
(* headers, one fetch, no retry and no failover.  An invocation of it      *)
(* stands next to an invocation of the retrying wrapper made with          *)
(* retry.maxAttempts = 1 and failover disabled; both are called with the   *)
(* same arguments.  The plain invocation uses the program counter values   *)
(* plain-idle and plain-fetch.                                             *)

\* tapesFetch(input, init) of the plain wrapper up to its await
PlainTapesFetch ==
    /\ pc = "plain-idle"
    /\ originalUrl' = OriginalUrl(input)
    /\ proxiedUrl' = ProxiedHref(originalUrl', normalizedProxyUrl)
    /\ requestInit' = [headers |-> MergedHeaders(init, extraHeaders, originalUrl'.host)]
    /\ console' = Log(console, "proxying")
    /\ requests' = Append(requests, Outbound("proxy", proxiedUrl', requestInit'.headers))
    /\ pc' = "plain-fetch"
    /\ UNCHANGED <<closure, elsewhere, arguments, attempt, lastError, lastResponse,
                   settled, sleeps, outcome>>

\* the fetch of the plain wrapper resolves: the response is returned
PlainResponds(status) ==
    /\ pc = "plain-fetch"
    /\ LET response == Response(status, Len(requests)) IN
       /\ settled' = Append(settled, response)
       /\ outcome' = [kind |-> "return", value |-> response]
    /\ console' = Log(console, "response")
    /\ pc' = "done"
    /\ UNCHANGED <<closure, elsewhere, arguments, locals, attempt, lastError,
                   lastResponse, requests, sleeps>>

\* the fetch of the plain wrapper rejects: the await throws, nothing catches
PlainRejects(e) ==
    /\ pc = "plain-fetch"
    /\ LET error == Error(e, Len(requests)) IN
       /\ settled' = Append(settled, error)
       /\ outcome' = [kind |-> "throw", value |-> error]
    /\ pc' = "done"
    /\ UNCHANGED <<closure, elsewhere, arguments, locals, attempt, lastError,
                   lastResponse, requests, sleeps, console>>

OneAttempt ==
    { Some([maxAttempts |-> Some(1), initialDelayMs |-> Undefined,
            maxDelayMs |-> Undefined]) }

PlainInputs ==
    Inputs \cup { [string |-> "http://localhost:11434/api/chat"] }

NextPlain ==
    \/ Switch
    \/ TapesFetch
    \/ \E status \in Statuses : ProxyResponds(status)
    \/ \E e \in NetworkErrors : ProxyRejects(e)
    \/ PlainTapesFetch
    \/ \E status \in Statuses : PlainResponds(status)
    \/ \E e \in NetworkErrors : PlainRejects(e)

InitPlain ==
    /\ InitWith(ProxyUrls, ExtraHeaderChoices, BOOLEAN, OneAttempt, {FALSE},
                PlainInputs, Inits)
    /\ parked = Some([Running EXCEPT !.pc = "plain-idle"])
    /\ config = Undefined
    /\ Apart

SpecPlain == InitPlain /\ [][NextPlain]_vars

Started(p) == p \notin {"idle", "plain-idle"}

\* C24: the retrying wrapper with retry.maxAttempts = 1 and failover off
\* behaves as the plain wrapper: called with the same arguments, and their
\* request having met the same outcome, both have issued one request, with
\* the same URL, headers, method and body, both have completed or neither
\* has, and both have returned the same response or thrown the same error.
C24_OneAttemptIsPlain ==
    ( /\ Started(pc)
      /\ Started(Other.pc)
      /\ Other.settled = settled )
    => ( /\ Len(requests) = 1
         /\ Other.requests = requests
         /\ (pc = "done") = (Other.pc = "done")
         /\ Other.outcome = outcome )

\* both wrappers have thrown the connection-refused error their one request
\* met: the retrying one did not retry it
C24_Witness ==
    /\ pc = "done"
    /\ Other.pc = "done"
    /\ Other.settled = settled
    /\ Len(settled) = 1
    /\ ConnectionRefused(settled[1])
    /\ outcome = [kind |-> "throw", value |-> settled[1]]
    /\ init # Undefined

----------------------------------------------------------------------------

\* C30: an invocation never writes to the caller's options or to the
\* caller's headers: no step of it, up to and including the failover,
\* changes init; the merged headers live in a copy.
C30_OptionsNotMutated == [][init' = init]_vars

\* an invocation that sent merged headers to the proxy and then failed over
\* has completed; the caller's headers are the one header they were
C30_Witness ==
    /\ pc = "done"
    /\ Direct # {}
    /\ init = Some([headers |-> Some(<< <<"Authorization", "Bearer key">> >>)])
    /\ DOMAIN requests[1].headers =
          {"authorization", "x-tapes-session", "x-tapes-original-host"}

====
